---------------------------- MODULE Spec2Model ----------------------------
(***************************************************************************)
(* A model of pantable-odoo (src/pantable/pantable.py): the panflute       *)
(* filter that turns rows exported from an Odoo model into a pandoc table  *)
(* node or into pipe / grid table markdown.                                *)
(*                                                                         *)
(* Python values are tagged records: None, Str(<<chars>>), Num(n, d) (a    *)
(* YAML number n/d), Bool(b), Lst(<<items>>).  A Python str is a sequence  *)
(* of one-character strings, so that len, slicing, split and join are      *)
(* computed on it as the code computes them.  A Python dict is a function  *)
(* whose DOMAIN is the set of keys present.  Floats are modelled as exact  *)
(* rationals [n, d] (d > 0).                                               *)
(***************************************************************************)
EXTENDS Integers, Sequences, FiniteSets, TLC

VARIABLES
    pc,              \* position in the call being modelled
    options,         \* the code block's YAML options (dict)
    global_options,  \* doc.get_metadata('odootable', {}) (dict)
    data,            \* the code block's content: the header override text
    raw_table_list,  \* the rows as the data source returned them (in
                     \* convert2table: None until it has answered)
    table_list,      \* the rows, regularized in place / with separator row
    n_col,           \* the column count regularize_table_list returned
    alignment,       \* parse_alignment's return value
    width,           \* get_width_wrap's return value
    text,            \* the rendered markdown text
    raised,          \* the exception in flight ("none" when there is none)
    ret              \* what the call returned

vars == <<pc, options, global_options, data, raw_table_list, table_list,
          n_col, alignment, width, text, raised, ret>>

-----------------------------------------------------------------------------
(* Python values *)

None == [t |-> "None"]
Str(s) == [t |-> "str", s |-> s]
Num(n, d) == [t |-> "num", n |-> n, d |-> d]
Bool(b) == [t |-> "bool", b |-> b]
Lst(l) == [t |-> "list", l |-> l]

\* bool(v): Python truthiness, as `if not alignment_string`, `if caption`,
\* `if firstrow`, `if not table_list` use it.
Truthy(v) ==
    CASE v.t = "None" -> FALSE
      [] v.t = "str"  -> v.s # <<>>
      [] v.t = "num"  -> v.n # 0
      [] v.t = "bool" -> v.b
      [] v.t = "list" -> v.l # <<>>

\* dict.get(key, default)
Get(d, key, default) == IF key \in DOMAIN d THEN d[key] ELSE default

SeqsUpTo(S, n) == UNION {[1..k -> S] : k \in 0..n}

\* F applied to the value of x: x is evaluated once, where a LET definition
\* is evaluated again at each of its uses.
Eval(x, F(_)) == CHOOSE r \in {F(v) : v \in {x}} : TRUE

Max(S) == Eval(S, LAMBDA T : CHOOSE m \in T : \A x \in T : x <= m)

RECURSIVE Sum(_)
Sum(q) ==
    Eval(q, LAMBDA s : IF s = <<>> THEN 0 ELSE s[1] + Sum(Tail(s)))

\* str.lower() on one character.
Lower(c) ==
    CASE c = "L" -> "l"
      [] c = "C" -> "c"
      [] c = "R" -> "r"
      [] c = "D" -> "d"
      [] c = "X" -> "x"
      [] OTHER   -> c

-----------------------------------------------------------------------------
(* parse_alignment *)

align_dict == [l |-> "AlignLeft", c |-> "AlignCenter",
               r |-> "AlignRight", d |-> "AlignDefault"]

get(key) ==
    LET key_lower == Lower(key)
    IN  IF key_lower \notin DOMAIN align_dict
        THEN align_dict["d"]
        ELSE align_dict[key_lower]

\* The mutant: the string is not truncated to n_col.
parse_alignment_NoTruncate(alignment_string, n) ==
    IF ~Truthy(alignment_string) THEN None
    ELSE IF alignment_string.t # "str" THEN None
    ELSE LET k == Len(alignment_string.s)
             al == [i \in 1..k |-> get(alignment_string.s[i])]
         IN  Lst(IF k < n THEN al \o [i \in 1..(n - k) |-> "AlignDefault"]
                 ELSE al)

parse_alignment(alignment_string, n) ==
    IF ~Truthy(alignment_string) THEN None
    ELSE IF alignment_string.t # "str" THEN None
    ELSE LET k == Len(alignment_string.s)
             s == IF k > n THEN SubSeq(alignment_string.s, 1, n)
                  ELSE alignment_string.s
             al == [i \in 1..Len(s) |-> get(s[i])]
         IN  Lst(IF k < n THEN al \o [i \in 1..(n - k) |-> "AlignDefault"]
                 ELSE al)

-----------------------------------------------------------------------------
(* regularize_table_list *)

length_of_rows(t) == [i \in 1..Len(t) |-> Len(t[i])]

max_row_length(t) == Max({length_of_rows(t)[i] : i \in 1..Len(t)})

\* The mutant: the empty cells are put in front of the row.
regularize_table_list_PadLeft(t) ==
    Eval(max_row_length(t), LAMBDA n :
        [i \in 1..Len(t) |->
            IF Len(t[i]) # n
            THEN [j \in 1..(n - Len(t[i])) |-> <<>>] \o t[i]
            ELSE t[i]])

\* The table after the in-place `row += [''] * (n_col - n)`.
regularize_table_list(t) ==
    Eval(max_row_length(t), LAMBDA n :
        [i \in 1..Len(t) |->
            IF Len(t[i]) # n
            THEN t[i] \o [j \in 1..(n - Len(t[i])) |-> <<>>]
            ELSE t[i]])

-----------------------------------------------------------------------------
(* fractions.Fraction and float(): rationals [n, d] with d > 0 *)

Rat(n, d) == [n |-> n, d |-> d]

RatEq(a, b) == a.n * b.d = b.n * a.d

RatLess(a, b) == a.n * b.d < b.n * a.d

Digits == {"0", "1", "2", "3", "4", "5", "6", "7", "8", "9"}

DigitVal(c) ==
    CASE c = "0" -> 0 [] c = "1" -> 1 [] c = "2" -> 2 [] c = "3" -> 3
      [] c = "4" -> 4 [] c = "5" -> 5 [] c = "6" -> 6 [] c = "7" -> 7
      [] c = "8" -> 8 [] c = "9" -> 9

AllDigits(s) == \A i \in 1..Len(s) : s[i] \in Digits

RECURSIVE DigitsVal(_)
DigitsVal(s) ==
    IF s = <<>> THEN 0
    ELSE 10 * DigitsVal(SubSeq(s, 1, Len(s) - 1)) + DigitVal(s[Len(s)])

RECURSIVE Pow10(_)
Pow10(k) == IF k = 0 THEN 1 ELSE 10 * Pow10(k - 1)

\* The index of the first c in s, 0 when there is none.
Find(str, c) ==
    Eval(str, LAMBDA s :
        IF \E i \in 1..Len(s) : s[i] = c
        THEN CHOOSE i \in 1..Len(s) :
                 s[i] = c /\ \A j \in 1..(i - 1) : s[j] # c
        ELSE 0)

Ok(v) == [e |-> "none", v |-> v]
Raise(e) == [e |-> e]

\* Fraction(str): [-+]? digits ( "/" digits | "." digits )?, as the
\* constructor's regular expression reads it, for strings without
\* whitespace, exponent or underscore.  A zero denominator raises
\* ZeroDivisionError, anything the expression does not match ValueError.
FractionOfStr(s) ==
    LET signed == s # <<>> /\ s[1] \in {"-", "+"}
        sign == IF signed /\ s[1] = "-" THEN -1 ELSE 1
        body == IF signed THEN Tail(s) ELSE s
        slash == Find(body, "/")
        dot == Find(body, ".")
    IN  IF slash > 0
        THEN LET num == SubSeq(body, 1, slash - 1)
                 den == SubSeq(body, slash + 1, Len(body))
             IN  IF num = <<>> \/ den = <<>> \/ ~AllDigits(num)
                       \/ ~AllDigits(den)
                 THEN Raise("ValueError")
                 ELSE IF DigitsVal(den) = 0
                 THEN Raise("ZeroDivisionError")
                 ELSE Ok(Rat(sign * DigitsVal(num), DigitsVal(den)))
        ELSE IF dot > 0
        THEN LET int == SubSeq(body, 1, dot - 1)
                 dec == SubSeq(body, dot + 1, Len(body))
             IN  IF (int = <<>> /\ dec = <<>>) \/ ~AllDigits(int)
                       \/ ~AllDigits(dec)
                 THEN Raise("ValueError")
                 ELSE Ok(Rat(sign * (DigitsVal(int) * Pow10(Len(dec))
                                        + DigitsVal(dec)),
                             Pow10(Len(dec))))
        ELSE IF body = <<>> \/ ~AllDigits(body)
        THEN Raise("ValueError")
        ELSE Ok(Rat(sign * DigitsVal(body), 1))

\* float(fractions.Fraction(x))
Fraction(x) ==
    CASE x.t = "str"  -> FractionOfStr(x.s)
      [] x.t = "num"  -> Ok(Rat(x.n, x.d))
      [] x.t = "bool" -> Ok(Rat(IF x.b THEN 1 ELSE 0, 1))
      [] OTHER        -> Raise("TypeError")

\* The exception a list comprehension ends with: that of its first item
\* that raises ("none" when no item does).
FirstError(results) ==
    Eval(results, LAMBDA rs :
        IF \E i \in 1..Len(rs) : rs[i].e # "none"
        THEN rs[CHOOSE i \in 1..Len(rs) :
                    /\ rs[i].e # "none"
                    /\ \A j \in 1..(i - 1) : rs[j].e = "none"].e
        ELSE "none")

-----------------------------------------------------------------------------
(* get_width, get_table_width, auto_width, get_width_wrap *)

\* len(width) and iteration over width: a list's items, a str's characters.
HasLen(v) == v.t \in {"list", "str"}
Items(v) == IF v.t = "list" THEN v.l ELSE [i \in 1..Len(v.s) |-> Str(<<v.s[i]>>)]

get_width(opts, n) ==
    IF "width" \notin DOMAIN opts THEN Ok(None)
    ELSE LET w == opts["width"] IN
         IF ~HasLen(w) THEN Raise("TypeError")
         ELSE IF Len(Items(w)) # n THEN Ok(None)
         ELSE Eval([i \in 1..n |-> Fraction(Items(w)[i])], LAMBDA rs :
                  LET e == FirstError(rs)
                  IN  IF e = "ValueError" THEN Ok(None)
                      ELSE IF e # "none" THEN Raise(e)
                      ELSE IF \E i \in 1..n : RatLess(rs[i].v, Rat(0, 1))
                      THEN Ok(None)
                      ELSE Ok(Lst([i \in 1..n |-> rs[i].v])))

get_table_width(opts) ==
    IF "table-width" \notin DOMAIN opts THEN Ok(Rat(1, 1))
    ELSE Eval(Fraction(opts["table-width"]), LAMBDA r :
             IF r.e = "ValueError" THEN Ok(Rat(1, 1))
             ELSE IF r.e # "none" THEN r
             ELSE IF ~RatLess(Rat(0, 1), r.v) THEN Ok(Rat(1, 1))
             ELSE r)

\* map(len, s.split("\n")): the lengths of the lines of s, in order.
RECURSIVE line_lengths(_)
line_lengths(str) ==
    Eval(str, LAMBDA s : Eval(Find(s, "\n"), LAMBDA nl :
        IF nl = 0 THEN <<Len(s)>>
        ELSE <<nl - 1>> \o line_lengths(SubSeq(s, nl + 1, Len(s)))))

SeqMax(seq) == Eval(seq, LAMBDA q : Max({q[i] : i \in 1..Len(q)}))

max_col_width(n, t) ==
    [j \in 1..n |-> Max({SeqMax(line_lengths(t[i][j])) : i \in 1..Len(t)})]

\* The mutant: the per-column overhead of 3 is left out of the total.
auto_width_NoOverhead(table_width, n, t) ==
    Eval(max_col_width(n, t), LAMBDA m : Eval(Sum(m), LAMBDA width_tot :
        IF width_tot = 0 THEN Raise("EmptyTableError")
        ELSE Ok(Lst([j \in 1..n |->
                        Rat((m[j] + 3) * table_width.n,
                            table_width.d * width_tot)]))))

\* scale = table_width / (width_tot + 3 * n_col); (width + 3) * scale
auto_width(table_width, n, t) ==
    Eval(max_col_width(n, t), LAMBDA m : Eval(Sum(m), LAMBDA width_tot :
        IF width_tot = 0 THEN Raise("EmptyTableError")
        ELSE Ok(Lst([j \in 1..n |->
                        Rat((m[j] + 3) * table_width.n,
                            table_width.d * (width_tot + 3 * n))]))))

get_width_wrap(opts, n, t) ==
    Eval(get_width(opts, n), LAMBDA w :
        IF w.e # "none" THEN w
        ELSE IF w.v # None THEN w
        ELSE Eval(get_table_width(opts), LAMBDA tw :
                 IF tw.e # "none" THEN tw
                 ELSE auto_width(tw.v, n, t)))

-----------------------------------------------------------------------------
(* str.split, str.join, str.format *)

\* s.split(c) for a one-character separator c.
RECURSIVE Split(_, _)
Split(str, c) ==
    Eval(str, LAMBDA s : Eval(Find(s, c), LAMBDA k :
        IF k = 0 THEN <<s>>
        ELSE <<SubSeq(s, 1, k - 1)>> \o Split(SubSeq(s, k + 1, Len(s)), c)))

\* sep.join(parts)
RECURSIVE Join(_, _)
Join(strs, sep) ==
    Eval(strs, LAMBDA parts :
        IF parts = <<>> THEN <<>>
        ELSE IF Len(parts) = 1 THEN parts[1]
        ELSE parts[1] \o sep \o Join(Tail(parts), sep))

\* lst[1:-1]
Inner(lst) ==
    Eval(lst, LAMBDA l : IF Len(l) < 2 THEN <<>> ELSE SubSeq(l, 2, Len(l) - 1))

\* c * n
Times(c, n) == [i \in 1..n |-> c]

-----------------------------------------------------------------------------
(* csv_to_pipe_tables *)

pipe_align_dict ==
    [AlignLeft    |-> <<":", "-", "-", "-">>,
     AlignCenter  |-> <<":", "-", "-", "-", ":">>,
     AlignRight   |-> <<"-", "-", "-", ":">>,
     AlignDefault |-> <<"-", "-", "-">>]

\* list.insert(1, x)
Insert1(l, x) ==
    IF l = <<>> THEN <<x>> ELSE <<l[1]>> \o <<x>> \o Tail(l)

\* The mutant: the separator row is inserted in front of row 0.
pipe_rows_SeparatorFirst(t, align) ==
    <<[j \in 1..Len(align) |-> pipe_align_dict[align[j]]]>> \o t

\* table_list after `table_list.insert(1, [align_dict[key] for key in alignment])`
pipe_rows(t, align) ==
    Insert1(t, [j \in 1..Len(align) |-> pipe_align_dict[align[j]]])

\* '|\t{}\t|'.format('\t|\t'.join(map(str, row)))
pipe_line(row) == <<"|", "\t">> \o Join(row, <<"\t", "|", "\t">>) \o <<"\t", "|">>

csv_to_pipe_tables(t, caption, align) ==
    IF align.t # "list" THEN Raise("TypeError")
    ELSE Eval(pipe_rows(t, align.l), LAMBDA rows :
             LET pipe_table_list == [i \in 1..Len(rows) |-> pipe_line(rows[i])]
                 with_caption ==
                     IF Truthy(caption)
                     THEN pipe_table_list \o <<<<>>, <<":", " ">> \o caption.s>>
                     ELSE pipe_table_list
             IN  [e |-> "none", v |-> Str(Join(with_caption, <<"\n">>)),
                  rows |-> rows])

-----------------------------------------------------------------------------
(* csv_to_grid_tables, modified_align_border *)

\* terminaltables.AsciiTable(table_list).table with inner_row_border set:
\* a border line above, between and below the rows, one text line per line
\* of a row's cells, every cell padded to its column's width plus one space
\* on each side.  The border after row 0 is the heading border, drawn with
\* heading_char (CHAR_H_INNER_HORIZONTAL).
grid_border(widths, ch) ==
    <<"+">> \o Join([j \in 1..Len(widths) |-> Times(ch, widths[j] + 2)], <<"+">>)
        \o <<"+">>

cell_line(cell, h) ==
    Eval(Split(cell, "\n"), LAMBDA ls : IF h <= Len(ls) THEN ls[h] ELSE <<>>)

grid_row_lines(row, widths) ==
    LET height == Max({Len(Split(row[j], "\n")) : j \in 1..Len(row)} \cup {1})
    IN  [h \in 1..height |->
            <<"|">> \o
            Join([j \in 1..Len(row) |->
                     Eval(cell_line(row[j], h), LAMBDA line :
                         <<" ">> \o line \o Times(" ", widths[j] - Len(line))
                             \o <<" ">>)],
                 <<"|">>)
            \o <<"|">>]

RECURSIVE grid_body(_, _, _, _)
grid_body(t, i, widths, heading_char) ==
    IF i > Len(t) THEN <<>>
    ELSE grid_row_lines(t[i], widths)
         \o (IF i = Len(t) THEN <<>>
             ELSE <<grid_border(widths, IF i = 1 THEN heading_char ELSE "-")>>)
         \o grid_body(t, i + 1, widths, heading_char)

AsciiTable(t, heading_char) ==
    Eval(max_col_width(Len(t[1]), t), LAMBDA widths :
        Join(<<grid_border(widths, "-")>>
                 \o grid_body(t, 1, widths, heading_char)
                 \o <<grid_border(widths, "-")>>,
             <<"\n">>))

border_align_dict ==
    [AlignLeft |-> {"first"}, AlignCenter |-> {"first", "last"},
     AlignRight |-> {"last"}, AlignDefault |-> {}]

\* header_border[idx] = ':' for idx in idxs; IndexError on an empty segment.
modify_border(segment, align) ==
    Eval(segment, LAMBDA header_border :
        LET idxs == border_align_dict[align]
        IN  IF idxs # {} /\ header_border = <<>> THEN Raise("IndexError")
            ELSE Ok([k \in 1..Len(header_border) |->
                        IF \/ (k = 1 /\ "first" \in idxs)
                           \/ (k = Len(header_border) /\ "last" \in idxs)
                        THEN ":" ELSE header_border[k]]))

\* set(line) == {'+', '='}
IsHeaderBorder(line) ==
    {line[k] : k \in 1..Len(line)} = {"+", "="}

\* The mutant: the markers always go to the first line.
border_index_FirstLine(lines, header) == 1

\* The index i the walk to the header border ends with: the first header
\* border line, or the last line when there is none (the loop variable
\* keeps its last value).
border_index(lines, header) ==
    Eval(lines, LAMBDA text_list :
        IF ~header THEN 1
        ELSE IF \E i \in 1..Len(text_list) : IsHeaderBorder(text_list[i])
        THEN CHOOSE i \in 1..Len(text_list) :
                 /\ IsHeaderBorder(text_list[i])
                 /\ \A j \in 1..(i - 1) : ~IsHeaderBorder(text_list[j])
        ELSE Len(text_list))

modified_align_border(txt, align, header) ==
    Eval(Split(txt, "\n"), LAMBDA text_list :
    Eval(border_index(text_list, header), LAMBDA i :
    Eval(Inner(Split(text_list[i], "+")), LAMBDA header_border_list :
        LET n == IF Len(header_border_list) < Len(align)
                 THEN Len(header_border_list) ELSE Len(align)
        IN  Eval([j \in 1..n |->
                     modify_border(header_border_list[j], align[j])],
                 LAMBDA rs :
                 IF FirstError(rs) # "none" THEN Raise(FirstError(rs))
                 ELSE Ok(Join([text_list EXCEPT ![i] =
                                  <<"+">>
                                      \o Join([j \in 1..n |-> rs[j].v], <<"+">>)
                                      \o <<"+">>],
                              <<"\n">>))))))

\* found: whether `import terminaltables` succeeds.
\* heading_char: the character the heading border is drawn with ('=' when
\* the library honours CHAR_H_INNER_HORIZONTAL).
csv_to_grid_tables(t, caption, align, header, found, heading_char) ==
    IF ~found THEN Raise("ImportError")
    ELSE Eval(AsciiTable(t, IF header THEN heading_char ELSE "-"), LAMBDA txt :
         Eval(IF Truthy(align)
              THEN modified_align_border(txt, align.l, header) ELSE Ok(txt),
              LAMBDA aligned :
              IF aligned.e # "none" THEN aligned
              ELSE Ok(Str(IF Truthy(caption)
                          THEN aligned.v \o <<"\n", "\n", ":", " ">>
                                   \o caption.s
                          ELSE aligned.v))))

-----------------------------------------------------------------------------
(* read_data *)

\* [row for row in csv.reader(io.StringIO(firstrow))] for text without
\* quotes or carriage returns: one row per line (a final line break ends
\* the last line and starts no new one), a line's cells split at the
\* commas, no cell at all for an empty line.
csv_reader(s) ==
    Eval(Split(s, "\n"), LAMBDA split :
        LET lines == IF split[Len(split)] = <<>>
                     THEN SubSeq(split, 1, Len(split) - 1) ELSE split
        IN  [i \in 1..Len(lines) |->
                IF lines[i] = <<>> THEN <<>> ELSE Split(lines[i], ",")])

\* The mutant: the header override is checked before the fetched rows.
read_data_HeaderFirst(datas, firstrow) ==
    IF Truthy(firstrow) /\ Len(csv_reader(firstrow.s)) # 1
    THEN Raise("MoreThanHeaderContentError")
    ELSE IF datas = <<>> THEN Raise("EmptyTableError")
    ELSE IF Truthy(firstrow) THEN Ok(<<csv_reader(firstrow.s)[1]>> \o datas)
    ELSE Ok(datas)

\* datas: the rows model.export_data returned.
read_data(datas, firstrow) ==
    IF datas = <<>> THEN Raise("EmptyTableError")
    ELSE IF Truthy(firstrow)
    THEN Eval(csv_reader(firstrow.s), LAMBDA rows :
             IF Len(rows) # 1 THEN Raise("MoreThanHeaderContentError")
             ELSE Ok(<<rows[1]>> \o datas))
    ELSE Ok(datas)

-----------------------------------------------------------------------------
(* convert2table: the options merge *)

PyInt(n) == [t |-> "int", n |-> n]
PyFloat(n, d) == [t |-> "float", n |-> n, d |-> d]

\* int(leaf), then float(leaf), then the leaf itself, for a leaf without
\* whitespace, exponent or underscore that spells no inf or nan.
coerce(leaf) ==
    IF leaf.t # "str" THEN leaf
    ELSE LET r == FractionOfStr(leaf.s)
         IN  IF r.e # "none" \/ Find(leaf.s, "/") > 0 THEN leaf
             ELSE IF Find(leaf.s, ".") = 0 THEN PyInt(r.v.n)
             ELSE PyFloat(r.v.n, r.v.d)

global_domain_coerced(global_domain) ==
    [i \in 1..Len(global_domain) |->
        [j \in 1..Len(global_domain[i]) |-> coerce(global_domain[i][j])]]

MandatoryKeys == <<"url", "login", "password", "model", "fields">>

\* `if key not in options: assert global_options.get(key)`, in the order of
\* the code: the first key that neither dict supplies.
first_missing(opts, glob) ==
    IF \E i \in 1..Len(MandatoryKeys) :
          /\ MandatoryKeys[i] \notin DOMAIN opts
          /\ ~Truthy(Get(glob, MandatoryKeys[i], None))
    THEN CHOOSE i \in 1..Len(MandatoryKeys) :
             /\ MandatoryKeys[i] \notin DOMAIN opts
             /\ ~Truthy(Get(glob, MandatoryKeys[i], None))
             /\ \A j \in 1..(i - 1) :
                   \/ MandatoryKeys[j] \in DOMAIN opts
                   \/ Truthy(Get(glob, MandatoryKeys[j], None))
    ELSE 0

DefaultPort == 80

\* options after lines 413-441: every mandatory key, database and port set.
with_connection(opts, glob) ==
    LET url == Get(opts, "url", Get(glob, "url", None))
        database ==
            IF "database" \in DOMAIN opts THEN opts["database"]
            ELSE IF "url" \in DOMAIN opts THEN opts["url"]
            ELSE IF Truthy(Get(glob, "database", None))
            THEN glob["database"] ELSE Get(glob, "url", None)
        port == Get(opts, "port", Get(glob, "port", PyInt(DefaultPort)))
    IN  [k \in DOMAIN opts \cup {"url", "database", "port", "login",
                                 "password", "model", "fields"} |->
            CASE k \in DOMAIN opts -> opts[k]
              [] k = "database" -> database
              [] k = "port" -> port
              [] OTHER -> glob[k]]

\* options["domain"] + global_domain_coerced
merge_domain(local_domain, global_domain) ==
    Lst(local_domain.l \o global_domain_coerced(global_domain.l))

\* The options dict at line 461, or the exception the merge raises.
merge_options(opts, glob) ==
    IF first_missing(opts, glob) # 0 THEN Raise("AssertionError")
    ELSE LET o == with_connection(opts, glob)
         IN  IF "domain" \notin DOMAIN glob THEN Ok(o)
             ELSE IF "domain" \notin DOMAIN o THEN Raise("KeyError")
             ELSE Ok([o EXCEPT !["domain"] =
                         merge_domain(o["domain"], glob["domain"])])

use_pipe_tables(opts, glob) ==
    IF "pipe_tables" \notin DOMAIN opts
    THEN Truthy(Get(glob, "pipe_tables", Bool(FALSE)))
    ELSE Truthy(opts["pipe_tables"])

use_grid_tables(opts, glob) ==
    IF "grid_tables" \notin DOMAIN opts
    THEN Truthy(Get(glob, "grid_tables", Bool(FALSE)))
    ELSE Truthy(opts["grid_tables"])

-----------------------------------------------------------------------------
(* odoo2table_ast, odoo2table_markdown, convert2table's except clauses *)

\* len(table) > 1 and options.get('header', True)
has_header(opts, t) == Len(t) > 1 /\ Truthy(Get(opts, "header", Bool(TRUE)))

\* t: the rows read_data returned.
odoo2table_ast(opts, t) ==
    Eval(max_row_length(t), LAMBDA n :
    Eval(regularize_table_list(t), LAMBDA rows :
    Eval(get_width_wrap(opts, n, rows), LAMBDA w :
        IF w.e # "none" THEN w
        ELSE Ok([t |-> "Table",
                 body |-> IF has_header(opts, rows) THEN Tail(rows) ELSE rows,
                 header |-> IF has_header(opts, rows) THEN Lst(rows[1]) ELSE None,
                 alignment |-> parse_alignment(Get(opts, "alignment", None), n),
                 width |-> w.v,
                 caption |-> Get(opts, "caption", None)]))))

odoo2table_markdown(opts, t, use_grid, terminaltables_found, heading_char) ==
    Eval(regularize_table_list(t), LAMBDA rows :
    Eval(parse_alignment(Get(opts, "alignment", None), max_row_length(t)),
         LAMBDA align :
    Eval(IF use_grid
         THEN csv_to_grid_tables(rows, Get(opts, "caption", None), align,
                                 has_header(opts, rows),
                                 terminaltables_found, heading_char)
         ELSE csv_to_pipe_tables(rows, Get(opts, "caption", None), align),
         LAMBDA txt :
        IF txt.e # "none" THEN Raise(txt.e)
        ELSE IF Truthy(Get(opts, "raw_markdown", Bool(FALSE)))
        THEN Ok([t |-> "RawBlock", text |-> txt.v])
        ELSE Ok([t |-> "blocks", text |-> txt.v]))))

\* The mutant: an empty table leaves the element unchanged.
except_return_EmptyUnchanged(e) ==
    CASE e = "FileNotFoundError" -> Ok(None)
      [] e = "EmptyTableError"   -> Ok(None)
      [] e = "ImportError"       -> Ok(None)
      [] OTHER                   -> Raise(e)

\* What the except clauses of convert2table make of exception e.
except_return(e) ==
    CASE e = "FileNotFoundError" -> Ok(None)
      [] e = "EmptyTableError"   -> Ok(Lst(<<>>))
      [] e = "ImportError"       -> Ok(None)
      [] OTHER                   -> Raise(e)

-----------------------------------------------------------------------------
(* Specification Spec: one call of convert2table(options, data, element,   *)
(* doc), from the options merge to the value returned or the exception     *)
(* that leaves the call.                                                   *)

MaxOptional == 2

V == Str(<<"v">>)

\* The optional parameters a code block may carry, well-formed or not.
OptionalPool ==
    {<<"width", Lst(<<Str(<<"1">>), Str(<<"1", "/", "2">>)>>)>>,
     <<"width", Lst(<<Str(<<"1", "/", "0">>), Str(<<"1">>)>>)>>,
     <<"width", Lst(<<Str(<<"x">>)>>)>>,
     <<"width", Num(1, 2)>>,
     <<"table-width", Str(<<"1", "/", "0">>)>>,
     <<"table-width", Str(<<"x">>)>>,
     <<"alignment", Str(<<"l", "r">>)>>,
     <<"alignment", Num(5, 1)>>,
     <<"caption", Str(<<"c", "a", "p">>)>>,
     <<"header", Bool(FALSE)>>,
     <<"pipe_tables", Bool(TRUE)>>,
     <<"grid_tables", Bool(TRUE)>>,
     <<"raw_markdown", Bool(TRUE)>>,
     <<"domain", Lst(<< <<Str(<<"a">>), Str(<<"=">>), Str(<<"5">>)>> >>)>>}

OptionalDicts ==
    {[k \in {a[1] : a \in S} |-> (CHOOSE a \in S : a[1] = k)[2]] :
        S \in {T \in SUBSET OptionalPool :
                  /\ Cardinality(T) <= MaxOptional
                  /\ \A a, b \in T : a[1] = b[1] => a = b}}

Mandatory == {MandatoryKeys[i] : i \in 1..Len(MandatoryKeys)}

LocalMandatory ==
    {Mandatory, {}, Mandatory \ {"url"}, Mandatory \ {"fields"}}

\* odootable metadata: none, or every mandatory key with an empty `fields`.
GlobalMandatory ==
    {<<>>, [k \in Mandatory |-> IF k = "fields" THEN Str(<<>>) ELSE V]}

GlobalOptional ==
    {<<>>,
     [k \in {"domain"} |->
         Lst(<< <<Str(<<"b">>), Str(<<"=">>), Str(<<"5", ".", "5">>)>>,
                <<Str(<<"c">>), Str(<<"=">>), Str(<<"a", "b", "c">>)>> >>)],
     [k \in {"pipe_tables"} |-> Bool(TRUE)],
     [k \in {"grid_tables"} |-> Bool(TRUE)]}

\* "h,h", "h" and "h\nh"
HeaderOverrides ==
    {None, Str(<<"h", ",", "h">>), Str(<<"h">>), Str(<<"h", "\n", "h">>)}

\* What model.export_data answers for two fields: no row, a row, a row of
\* empty cells, two rows.
ExportedDatas ==
    {<<>>,
     << <<<<"a">>, <<"b", "c">>>> >>,
     << <<<<>>, <<>>>> >>,
     << <<<<"a">>, <<"b", "c">>>>, <<<<"d">>, <<>>>> >>}

Init ==
    /\ pc = "merge"
    /\ \E l \in LocalMandatory, o \in OptionalDicts :
          options = o @@ [k \in l |-> V]
    /\ \E g \in GlobalMandatory, o \in GlobalOptional : global_options = o @@ g
    /\ data \in HeaderOverrides
    /\ raw_table_list = None
    /\ table_list = <<>>
    /\ n_col = 0
    /\ alignment = None /\ width = None /\ text = None
    /\ raised = "none" /\ ret = None

\* Lines 411-470.  An exception raised here is outside the try statement.
MergeOptions ==
    /\ pc = "merge"
    /\ \E r \in {merge_options(options, global_options)} :
           /\ raised' = r.e
           /\ options' = IF r.e = "none" THEN r.v ELSE options
           /\ pc' = IF r.e = "none" THEN "read_data" ELSE "aborted"
    /\ UNCHANGED <<global_options, data, raw_table_list, table_list, n_col,
                   alignment, width, text, ret>>

\* read_data, called first by odoo2table_ast and odoo2table_markdown: the
\* data source answers with some rows.
ReadData ==
    /\ pc = "read_data"
    /\ \E datas \in ExportedDatas :
          \E r \in {read_data(datas, data)} :
              /\ raw_table_list' = Lst(datas)
              /\ raised' = r.e
              /\ table_list' = IF r.e = "none" THEN r.v ELSE table_list
              /\ pc' = IF r.e = "none" THEN "build" ELSE "except"
    /\ UNCHANGED <<options, global_options, data, n_col, alignment, width,
                   text, ret>>

\* The data source fails to open a file it needs.
ReadDataFileNotFound ==
    /\ pc = "read_data"
    /\ raised' = "FileNotFoundError"
    /\ pc' = "except"
    /\ UNCHANGED <<options, global_options, data, raw_table_list, table_list,
                   n_col, alignment, width, text, ret>>

MarkdownMode ==
    \/ use_pipe_tables(options, global_options)
    \/ use_grid_tables(options, global_options)

\* odoo2table_ast after read_data.
Odoo2TableAst ==
    /\ pc = "build"
    /\ ~MarkdownMode
    /\ \E r \in {odoo2table_ast(options, table_list)} :
           /\ raised' = r.e
           /\ ret' = IF r.e = "none" THEN r.v ELSE ret
           /\ width' = IF r.e = "none" THEN r.v.width ELSE width
           /\ alignment' = IF r.e = "none" THEN r.v.alignment ELSE alignment
           /\ pc' = IF r.e = "none" THEN "returned" ELSE "except"
    /\ table_list' = regularize_table_list(table_list)
    /\ n_col' = max_row_length(table_list)
    /\ UNCHANGED <<options, global_options, data, raw_table_list, text>>

\* odoo2table_markdown after read_data.
Odoo2TableMarkdown ==
    /\ pc = "build"
    /\ MarkdownMode
    /\ \E terminaltables_found \in BOOLEAN, heading_char \in {"=", "-"} :
          \E r \in {odoo2table_markdown(
                         options, table_list,
                         use_grid_tables(options, global_options),
                         terminaltables_found, heading_char)} :
              /\ raised' = r.e
              /\ ret' = IF r.e = "none" THEN r.v ELSE ret
              /\ text' = IF r.e = "none" THEN r.v.text ELSE text
              /\ pc' = IF r.e = "none" THEN "returned" ELSE "except"
    /\ table_list' = regularize_table_list(table_list)
    /\ n_col' = max_row_length(table_list)
    /\ alignment' = parse_alignment(Get(options, "alignment", None),
                                    max_row_length(table_list))
    /\ UNCHANGED <<options, global_options, data, raw_table_list, width>>

\* The except clauses of lines 481-489; `raised` keeps what was caught.
Except ==
    /\ pc = "except"
    /\ \E r \in {except_return(raised)} :
           /\ ret' = IF r.e = "none" THEN r.v ELSE ret
           /\ pc' = IF r.e = "none" THEN "returned" ELSE "aborted"
    /\ UNCHANGED <<options, global_options, data, raw_table_list, table_list,
                   n_col, alignment, width, text, raised>>

Next ==
    \/ MergeOptions
    \/ ReadData
    \/ ReadDataFileNotFound
    \/ Odoo2TableAst
    \/ Odoo2TableMarkdown
    \/ Except

Spec == Init /\ [][Next]_vars

Final == pc \in {"returned", "aborted"}

\* What the claim says a leaf is coerced to.
CoercedAsClaimed(leaf) ==
    CASE leaf = Str(<<"5">>) -> PyInt(5)
      [] leaf = Str(<<"5", ".", "5">>) -> PyFloat(55, 10)
      [] OTHER -> leaf

\* C1: when the odootable metadata supplies a domain, options['domain'] is
\* the global entries followed by the local ones, every leaf coerced to an
\* integer, else to a float, else left as text.
C1_DomainMerge ==
    (pc # "merge" /\ raised # "AssertionError"
        /\ "domain" \in DOMAIN global_options) =>
        LET g == global_options["domain"].l
        IN  /\ "domain" \in DOMAIN options
            /\ Len(options["domain"].l) >= Len(g)
            /\ \A i \in 1..Len(g) :
                  options["domain"].l[i]
                      = [j \in 1..Len(g[i]) |-> CoercedAsClaimed(g[i][j])]
            /\ \A i \in 1..Len(options["domain"].l) :
                  \A j \in 1..Len(options["domain"].l[i]) :
                      CoercedAsClaimed(options["domain"].l[i][j])
                          = options["domain"].l[i][j]

\* C2: with the mandatory parameters available and the header override a
\* single CSV row, convert2table never ends with an uncaught exception,
\* whatever the optional parameters are: only a missing mandatory parameter
\* or a malformed header override aborts the conversion.
C2_NeverAborts ==
    pc = "aborted" =>
        raised \in {"AssertionError", "MoreThanHeaderContentError"}

HeaderMalformed == Truthy(data) /\ Len(csv_reader(data.s)) # 1

\* C3: the outcome follows the exception raised, in every render mode: an
\* EmptyTableError gives [], an ImportError or FileNotFoundError gives None,
\* a MoreThanHeaderContentError leaves the call, a missing required field
\* leaves the call before any data is fetched; zero rows from the data
\* source give [] even when the header override is malformed.
C3_Outcome ==
    Final =>
        /\ raised = "EmptyTableError" => (pc = "returned" /\ ret = Lst(<<>>))
        /\ raised \in {"ImportError", "FileNotFoundError"} =>
              (pc = "returned" /\ ret = None)
        /\ raised = "MoreThanHeaderContentError" => pc = "aborted"
        /\ raised = "AssertionError" =>
              (pc = "aborted" /\ raw_table_list = None)
        /\ first_missing(options, global_options) # 0 =>
              (pc = "aborted" /\ raw_table_list = None)
        /\ raw_table_list = Lst(<<>>) =>
              (pc = "returned" /\ ret = Lst(<<>>))
        /\ (raw_table_list # None /\ raw_table_list # Lst(<<>>)
               /\ HeaderMalformed) =>
              (pc = "aborted" /\ raised = "MoreThanHeaderContentError")

\* Pipe mode, zero rows and a two-line header override: the element is
\* deleted.
C3_Witness ==
    /\ pc = "returned"
    /\ raw_table_list = Lst(<<>>)
    /\ HeaderMalformed
    /\ use_pipe_tables(options, global_options)
    /\ raised = "EmptyTableError"
    /\ ret = Lst(<<>>)

-----------------------------------------------------------------------------
(* Specification SpecAlign: parse_alignment on every alignment option. *)

MaxAlignLen == 3
MaxAlignCol == 3

AlignChars == {"l", "C", "r", "d", "x"}

AlignmentInputs ==
    {Str(s) : s \in SeqsUpTo(AlignChars, MaxAlignLen)}
        \cup {None, Num(5, 1), Num(0, 1)}

InitAlign ==
    /\ pc = "parse_alignment"
    /\ \E a \in AlignmentInputs : options = [alignment |-> a]
    /\ n_col \in 0..MaxAlignCol
    /\ alignment = None
    /\ global_options = <<>> /\ data = None
    /\ raw_table_list = <<>> /\ table_list = <<>>
    /\ width = None /\ text = None /\ raised = "none" /\ ret = None

ParseAlignment ==
    /\ pc = "parse_alignment"
    /\ alignment' = parse_alignment(Get(options, "alignment", None), n_col)
    /\ pc' = "done"
    /\ UNCHANGED <<options, global_options, data, raw_table_list, table_list,
                   n_col, width, text, raised, ret>>

NextAlign == ParseAlignment

SpecAlign == InitAlign /\ [][NextAlign]_vars

\* What a character stands for (section 4.2 of the specification).
AlignOf(c) ==
    CASE c \in {"l", "L"} -> "AlignLeft"
      [] c \in {"c", "C"} -> "AlignCenter"
      [] c \in {"r", "R"} -> "AlignRight"
      [] OTHER            -> "AlignDefault"

AlignmentAsClaimed ==
    LET s == options.alignment.s
        k == Len(s)
    IN  /\ alignment.t = "list"
        /\ Len(alignment.l) = n_col
        /\ \A i \in 1..n_col :
              alignment.l[i] = IF i <= k THEN AlignOf(s[i]) ELSE "AlignDefault"

\* C4 (as stated): for every alignment string of length k and every n_col,
\* parse_alignment returns exactly n_col alignment values, the first
\* min(k, n_col) of them the characters' meanings and the rest Default.
C4_AsStated ==
    (pc = "done" /\ options.alignment.t = "str") => AlignmentAsClaimed

\* C4 (amended): the same for every NON-EMPTY alignment string; the empty
\* string returns None (no alignment), like an absent option.
C4_ParseAlignment ==
    /\ (pc = "done" /\ options.alignment.t = "str"
           /\ Len(options.alignment.s) >= 1) => AlignmentAsClaimed
    /\ (pc = "done" /\ options.alignment.t = "str"
           /\ Len(options.alignment.s) = 0) => alignment = None

\* A string longer than n_col with an invalid and an upper-case character.
C4_Witness ==
    /\ pc = "done"
    /\ options.alignment = Str(<<"C", "x", "r">>)
    /\ n_col = 2
    /\ alignment = Lst(<<"AlignCenter", "AlignDefault">>)

-----------------------------------------------------------------------------
(* Specification SpecReg: regularize_table_list on every non-empty table. *)

MaxRegRows == 3
MaxRegCols == 2

RegCells == {<<>>, <<"a">>}

RegTables ==
    SeqsUpTo(SeqsUpTo(RegCells, MaxRegCols), MaxRegRows) \ {<<>>}

InitReg ==
    /\ pc = "regularize_table_list"
    /\ raw_table_list \in RegTables
    /\ table_list = raw_table_list
    /\ n_col = 0
    /\ options = <<>> /\ global_options = <<>> /\ data = None
    /\ alignment = None /\ width = None /\ text = None
    /\ raised = "none" /\ ret = None

Regularize ==
    /\ pc = "regularize_table_list"
    /\ table_list' = regularize_table_list(table_list)
    /\ n_col' = max_row_length(table_list)
    /\ pc' = "done"
    /\ UNCHANGED <<options, global_options, data, raw_table_list, alignment,
                   width, text, raised, ret>>

NextReg == Regularize

SpecReg == InitReg /\ [][NextReg]_vars

\* C7: after regularize_table_list every row has the length of the longest
\* input row, which is the returned n_col; the rows keep their number and
\* order, every original cell keeps its place and value, and every added
\* cell is the empty string, to the right of the original cells.
C7_Regularize ==
    pc = "done" =>
        /\ Len(table_list) = Len(raw_table_list)
        /\ \A i \in 1..Len(raw_table_list) : Len(raw_table_list[i]) <= n_col
        /\ \E i \in 1..Len(raw_table_list) : Len(raw_table_list[i]) = n_col
        /\ \A i \in 1..Len(table_list) :
              /\ Len(table_list[i]) = n_col
              /\ \A j \in 1..n_col :
                    table_list[i][j] =
                        IF j <= Len(raw_table_list[i])
                        THEN raw_table_list[i][j] ELSE <<>>

\* A short non-empty row between longer ones is padded on the right.
C7_Witness ==
    /\ pc = "done"
    /\ raw_table_list = << <<<<"a">>, <<>>>>, <<<<"a">>>>, <<>> >>
    /\ table_list = << <<<<"a">>, <<>>>>, <<<<"a">>, <<>>>>, <<<<>>, <<>>>> >>
    /\ n_col = 2

-----------------------------------------------------------------------------
(* Specification SpecWidth: get_width_wrap on every 'width' option. *)

MaxWidthLen == 2
MaxWidthCols == 2

WidthEntries ==
    {Str(<<"1">>), Str(<<"1", "/", "2">>), Str(<<"-", "1">>), Str(<<"x">>),
     Str(<<"1", "/", "0">>), Str(<<".", "5">>), Num(1, 4)}

WidthOptions ==
    {Lst(l) : l \in SeqsUpTo(WidthEntries, MaxWidthLen)} \cup {Num(1, 2)}

\* One-row regularized tables of n equal cells.
WidthTables ==
    {[i \in 1..1 |-> [j \in 1..n |-> c]] :
        n \in 1..MaxWidthCols, c \in {<<>>, <<"a", "b">>}}

InitWidth ==
    /\ pc = "get_width_wrap"
    /\ \E w \in WidthOptions, tw \in {Str(<<"2">>), Str(<<"1", "/", "0">>)},
          keys \in {{"width"}, {"width", "table-width"}, {"table-width"}} :
            options = [k \in keys |-> IF k = "width" THEN w ELSE tw]
    /\ table_list \in WidthTables
    /\ raw_table_list = table_list
    /\ n_col = Len(table_list[1])
    /\ width = None
    /\ global_options = <<>> /\ data = None
    /\ alignment = None /\ text = None /\ raised = "none" /\ ret = None

GetWidthWrap ==
    /\ pc = "get_width_wrap"
    /\ \E r \in {get_width_wrap(options, n_col, table_list)} :
           /\ raised' = r.e
           /\ width' = IF r.e = "none" THEN r.v ELSE width
    /\ pc' = "done"
    /\ UNCHANGED <<options, global_options, data, raw_table_list, table_list,
                   n_col, alignment, text, ret>>

NextWidth == GetWidthWrap

SpecWidth == InitWidth /\ [][NextWidth]_vars

\* The automatically computed width of the table (or the empty-table error).
AutoOutcome ==
    LET tw == get_table_width(options)
    IN  IF tw.e # "none" THEN tw ELSE auto_width(tw.v, n_col, table_list)

ExplicitListRejected ==
    LET l == options["width"].l
    IN  \/ Len(l) # n_col
        \/ \E i \in 1..Len(l) : Fraction(l[i]).e # "none"
        \/ \E i \in 1..Len(l) :
              Fraction(l[i]).e = "none" /\ RatLess(Fraction(l[i]).v, Rat(0, 1))

\* C5: in the structured-tree path, an explicit width list whose length
\* differs from n_col, or with an entry that does not parse as a rational or
\* decimal number, or with a negative entry, is discarded and the width is
\* the automatically computed one; a list of exactly n_col parseable
\* non-negative entries is used as given, entry by entry.
C5_ExplicitWidth ==
    (pc = "done" /\ "width" \in DOMAIN options /\ options["width"].t = "list")
    => IF ExplicitListRejected
       THEN /\ raised = AutoOutcome.e
            /\ raised = "none" => width = AutoOutcome.v
       ELSE /\ raised = "none"
            /\ width.t = "list"
            /\ Len(width.l) = n_col
            /\ \A i \in 1..n_col :
                  RatEq(width.l[i], Fraction(options["width"].l[i]).v)

-----------------------------------------------------------------------------
(* Specification SpecAuto: auto_width on every regularized table. *)

MaxAutoRows == 2
MaxAutoCols == 2

\* "", "aaaaa" and "a\naaaaaaaaaa": longest lines of 0, 5 and 10 characters.
AutoCells ==
    {<<>>, [i \in 1..5 |-> "a"],
     <<"a", "\n">> \o [i \in 1..10 |-> "a"]}

AutoTables ==
    UNION {[1..r -> [1..n -> AutoCells]] :
              r \in 1..MaxAutoRows, n \in 1..MaxAutoCols}

InitAuto ==
    /\ pc = "get_width_wrap"
    /\ \/ options = <<>>
       \/ \E tw \in {Str(<<"1", "/", "2">>), Num(2, 1), Str(<<"-", "1">>)} :
             options = [k \in {"table-width"} |-> tw]
    /\ table_list \in AutoTables
    /\ raw_table_list = table_list
    /\ n_col = Len(table_list[1])
    /\ width = None
    /\ global_options = <<>> /\ data = None
    /\ alignment = None /\ text = None /\ raised = "none" /\ ret = None

NextAuto == GetWidthWrap

SpecAuto == InitAuto /\ [][NextAuto]_vars

\* The length of the longest line of s: of its longest piece without a
\* line break.
LongestLine(s) ==
    Max({b - a : <<a, b>> \in
            {ab \in (0..Len(s)) \X (0..Len(s)) :
                /\ ab[1] <= ab[2]
                /\ \A i \in (ab[1] + 1)..ab[2] : s[i] # "\n"}})

LongestLineOf == [c \in AutoCells |-> LongestLine(c)]

ColMax(j) == Max({LongestLineOf[table_list[i][j]] : i \in 1..Len(table_list)})

RECURSIVE RatSum(_)
RatSum(q) ==
    IF q = <<>> THEN Rat(0, 1)
    ELSE LET r == RatSum(Tail(q))
         IN  Rat(q[1].n * r.d + r.n * q[1].d, q[1].d * r.d)

-----------------------------------------------------------------------------
(* Specification SpecPipe: csv_to_pipe_tables on every regularized table. *)

MaxPipeRows == 2
MaxPipeCols == 2

\* "a" and "b\nc"
PipeCells == {<<"a">>, <<"b", "\n", "c">>}

PipeTables ==
    UNION {[1..r -> [1..n -> PipeCells]] :
              r \in 1..MaxPipeRows, n \in 1..MaxPipeCols}

Alignments == {"AlignLeft", "AlignCenter", "AlignRight", "AlignDefault"}

\* absent, empty and "cap"
Captions == {None, Str(<<>>), Str(<<"c", "a", "p">>)}

InitPipe ==
    /\ pc = "csv_to_pipe_tables"
    /\ raw_table_list \in PipeTables
    /\ table_list = raw_table_list
    /\ n_col = Len(raw_table_list[1])
    /\ \/ alignment = None
       \/ \E l \in [1..n_col -> Alignments] : alignment = Lst(l)
    /\ \E c \in Captions :
          options = IF c = None THEN <<>> ELSE [k \in {"caption"} |-> c]
    /\ text = None
    /\ global_options = <<>> /\ data = None
    /\ width = None /\ raised = "none" /\ ret = None

CsvToPipeTables ==
    /\ pc = "csv_to_pipe_tables"
    /\ \E r \in {csv_to_pipe_tables(table_list,
                                      Get(options, "caption", None),
                                      alignment)} :
           /\ raised' = r.e
           /\ text' = IF r.e = "none" THEN r.v ELSE text
           /\ table_list' = IF r.e = "none" THEN r.rows ELSE table_list
    /\ pc' = "done"
    /\ UNCHANGED <<options, global_options, data, raw_table_list, n_col,
                   alignment, width, ret>>

NextPipe == CsvToPipeTables

SpecPipe == InitPipe /\ [][NextPipe]_vars

PipeToken(a) ==
    CASE a = "AlignLeft"   -> <<":", "-", "-", "-">>
      [] a = "AlignCenter" -> <<":", "-", "-", "-", ":">>
      [] a = "AlignRight"  -> <<"-", "-", "-", ":">>
      [] a = "AlignDefault" -> <<"-", "-", "-">>

\* The rows rendered: row 0, the separator row, the other rows in order.
PipeRowsAsClaimed ==
    /\ Len(table_list) = Len(raw_table_list) + 1
    /\ table_list[1] = raw_table_list[1]
    /\ Len(table_list[2]) = n_col
    /\ \A j \in 1..n_col : table_list[2][j] = PipeToken(alignment.l[j])
    /\ \A i \in 2..Len(raw_table_list) : table_list[i + 1] = raw_table_list[i]

\* The cells of an output line: the text between its '|' delimiters, less
\* the tab on each side.
PipeLineIs(line, row) ==
    LET parts == Split(line, "|")
    IN  /\ Len(parts) = Len(row) + 2
        /\ parts[1] = <<>> /\ parts[Len(parts)] = <<>>
        /\ \A j \in 1..Len(row) : parts[j + 1] = <<"\t">> \o row[j] \o <<"\t">>

\* One output line per row, then `extra` more lines.
PipeLinesAsClaimed(extra) ==
    LET lines == Split(text.s, "\n")
    IN  /\ Len(lines) = Len(table_list) + Len(extra)
        /\ \A i \in 1..Len(table_list) : PipeLineIs(lines[i], table_list[i])
        /\ \A i \in 1..Len(extra) : lines[Len(table_list) + i] = extra[i]

CaptionLines == <<<<>>, <<":", " ">> \o options["caption"].s>>

NoLineBreakInCells ==
    \A i \in 1..Len(raw_table_list) : \A j \in 1..n_col :
        Find(raw_table_list[i][j], "\n") = 0

\* C8 (as stated): for every regularized table and alignment spec of length
\* n_col the pipe text is the input rows in order with one separator row of
\* alignment tokens right after row 0, one output line per row, followed by
\* a blank line and a ': <caption>' line exactly when a caption is present.
C8_AsStated ==
    (pc = "done" /\ alignment.t = "list") =>
        /\ raised = "none"
        /\ PipeRowsAsClaimed
        /\ PipeLinesAsClaimed(IF "caption" \in DOMAIN options
                              THEN CaptionLines ELSE <<>>)

\* C8 (amended): the rows and the separator row are as stated for every
\* table; there is one output line per row when no cell contains a line
\* break; the blank line and the ': <caption>' line follow exactly when the
\* caption is a non-empty string.
C8_PipeTable ==
    (pc = "done" /\ alignment.t = "list") =>
        /\ raised = "none"
        /\ PipeRowsAsClaimed
        /\ NoLineBreakInCells =>
              PipeLinesAsClaimed(IF "caption" \in DOMAIN options
                                    /\ options["caption"].s # <<>>
                                 THEN CaptionLines ELSE <<>>)
        /\ text.s = Join([i \in 1..Len(table_list) |->
                             <<"|", "\t">>
                                 \o Join(table_list[i], <<"\t", "|", "\t">>)
                                 \o <<"\t", "|">>]
                             \o (IF "caption" \in DOMAIN options
                                    /\ options["caption"].s # <<>>
                                 THEN CaptionLines ELSE <<>>),
                         <<"\n">>)

\* Two rows of two cells, [Left, Default], with a caption.
C8_Witness ==
    /\ pc = "done"
    /\ raw_table_list = << <<<<"a">>, <<"a">>>>, <<<<"a">>, <<"a">>>> >>
    /\ alignment = Lst(<<"AlignLeft", "AlignDefault">>)
    /\ "caption" \in DOMAIN options /\ options["caption"].s # <<>>
    /\ table_list[2] = << <<":", "-", "-", "-">>, <<"-", "-", "-">> >>
    /\ Len(Split(text.s, "\n")) = 5

-----------------------------------------------------------------------------
(* Specification SpecBorder: modified_align_border on rendered grid text. *)

MaxGridRows == 2
MaxGridCols == 2

\* Tables of "a" cells with "b\ncd" where the rows R meet the columns C.
GridTables ==
    {[i \in 1..r |-> [j \in 1..n |->
         IF i \in R /\ j \in C THEN <<"b", "\n", "c", "d">> ELSE <<"a">>]] :
        r \in 1..MaxGridRows, n \in 1..MaxGridCols,
        R \in SUBSET (1..MaxGridRows), C \in SUBSET (1..MaxGridCols)}

InitBorder ==
    /\ pc = "modified_align_border"
    /\ table_list \in GridTables
    /\ raw_table_list = table_list
    /\ n_col = Len(table_list[1])
    /\ \E l \in [1..n_col -> Alignments] : alignment = Lst(l)
    /\ \E h \in BOOLEAN : options = [k \in {"header"} |-> Bool(h)]
    /\ \E heading_char \in {"=", "-"} :
          text = Str(AsciiTable(table_list, heading_char))
    /\ global_options = <<>> /\ data = None
    /\ width = None /\ raised = "none" /\ ret = None

ModifiedAlignBorder ==
    /\ pc = "modified_align_border"
    /\ \E r \in {modified_align_border(text.s, alignment.l,
                                         options["header"].b)} :
           /\ raised' = r.e
           /\ ret' = IF r.e = "none" THEN Str(r.v) ELSE ret
    /\ pc' = "done"
    /\ UNCHANGED <<options, global_options, data, raw_table_list, table_list,
                   n_col, alignment, width, text>>

NextBorder == ModifiedAlignBorder

SpecBorder == InitBorder /\ [][NextBorder]_vars

SolelyPlusEq(line) ==
    /\ \A k \in 1..Len(line) : line[k] \in {"+", "="}
    /\ \E k \in 1..Len(line) : line[k] = "+"
    /\ \E k \in 1..Len(line) : line[k] = "="

HasHeaderBorder(lines) == \E i \in 1..Len(lines) : SolelyPlusEq(lines[i])

\* The line the claim says is rewritten.
TargetLine(lines) ==
    IF options["header"].b
    THEN CHOOSE i \in 1..Len(lines) :
             /\ SolelyPlusEq(lines[i])
             /\ \A j \in 1..(i - 1) : ~SolelyPlusEq(lines[j])
    ELSE 1

\* The character the claim expects at position k of the rewritten line: in
\* the j-th '+'-delimited segment, ':' at the first position for Left and
\* Center, ':' at the last for Right and Center, the old character elsewhere.
MarkedChar(line, k) ==
    LET j == Cardinality({p \in 1..k : line[p] = "+"})
        first == k > 1 /\ line[k - 1] = "+"
        last == k < Len(line) /\ line[k + 1] = "+"
        a == alignment.l[j]
    IN  IF line[k] = "+" THEN "+"
        ELSE IF \/ (first /\ a \in {"AlignLeft", "AlignCenter"})
                \/ (last /\ a \in {"AlignRight", "AlignCenter"})
        THEN ":" ELSE line[k]

\* C9: modified_align_border rewrites exactly one line, the first line made
\* solely of '+' and '=' when a header exists and line 0 otherwise: every
\* '+'-delimited segment gets ':' as its first character for Left, its last
\* for Right, both for Center, neither for Default; the line keeps its
\* length and its '+' positions and every other line is unchanged.
C9_AlignBorder ==
    pc = "done" =>
        \A in \in {Split(text.s, "\n")} :
            (options["header"].b => HasHeaderBorder(in)) =>
                /\ raised = "none"
                /\ \A out \in {Split(ret.s, "\n")}, t \in {TargetLine(in)} :
                       /\ Len(out) = Len(in)
                       /\ \A i \in 1..Len(in) : i # t => out[i] = in[i]
                       /\ Len(out[t]) = Len(in[t])
                       /\ \A k \in 1..Len(in[t]) :
                             out[t][k] = MarkedChar(in[t], k)

\* '+===+===+' under a one-column-wide two-column header with [Left, Right]
\* becomes '+:==+==:+', and it is not the first line of the text.
C9_Witness ==
    /\ pc = "done"
    /\ options["header"].b
    /\ alignment = Lst(<<"AlignLeft", "AlignRight">>)
    /\ \E in \in {Split(text.s, "\n")} :
           /\ HasHeaderBorder(in)
           /\ TargetLine(in) = 3
           /\ in[3] = <<"+", "=", "=", "=", "+", "=", "=", "=", "+">>
    /\ Split(ret.s, "\n")[3] = <<"+", ":", "=", "=", "+", "=", "=", ":", "+">>

\* C10: with a header requested and no line made solely of '+' and '=',
\* modified_align_border returns the text unmodified.
C10_NoHeaderBorder ==
    (pc = "done" /\ options["header"].b
        /\ ~HasHeaderBorder(Split(text.s, "\n"))) =>
        /\ raised = "none"
        /\ ret = text

=============================================================================
